---- MODULE Spec2Model ----
(***************************************************************************)
(* GccDecisionAnalyzer (plot_gcc_decision_analysis_vertical.py): the log   *)
(* parse pass parse_log_file, the loss statistics and the decision         *)
(* post-processing of plot_gcc_decision_metrics, the rows drawn by         *)
(* plot_constraint_analysis, and main; further down the parse pass, the    *)
(* folded stacks and the report of WebRTCFlameGraphGenerator               *)
(* (generate_webrtc_flamegraph.py) and the hotspot parser, the categories  *)
(* and the report of WebRTCCPUAnalyzer (analyze_cpu_usage.py).             *)
(*                                                                         *)
(* A log line is a sequence of text fragments ("segments").  A segment is  *)
(* either the text of one grammar of the pattern table, a free timestamp   *)
(* token ("Time: N ms", "at N ms") or other text.  re.search finds the     *)
(* leftmost match, so a pattern matches a line iff the line holds a        *)
(* segment of its grammar, and its groups are those of the first one.      *)
(***************************************************************************)
EXTENDS Integers, Sequences, FiniteSets, TLC

\* Timestamps written in the log are 0..MaxTs.
MaxTs == 2
\* Longest log file, in lines, of the specifications below.
MaxLines == 3
MaxLinesAll == 2
\* Number of calls of parse_log_file on one analyzer.
MaxRuns == 2

Timestamps == 0..MaxTs

\* Python's None (last_timestamp = None) is the empty tuple, an int n is <<n>>.
None == <<>>

Some(n) == <<n>>

\* Python truthiness of "last_timestamp": None and 0 are false.
Truthy(x) == x # None /\ x[1] # 0

(***************************************************************************)
(* Log text                                                                *)
(***************************************************************************)
\* kind: the grammar of the fragment; time: its timestamp digits, parsed;
\* vals: the other capture groups the parser reads, in positional order.
Seg(kind, time, vals) == [kind |-> kind, time |-> time, vals |-> vals]

\* The names of self.patterns.
PatternNames ==
    { "decision", "trendline", "rtt_bwe", "loss_bwe", "loss_candidates",
      "delay_bwe", "probe_result", "probe_success", "probe_result_old",
      "probe_success_old", "constraint_apply", "delay_limit",
      "receiver_limit", "config_limit", "pushback" }

\* Grammars whose text holds "Time: (\d+) ms".
TimeKinds ==
    { "trendline", "rtt_bwe", "loss_bwe", "loss_candidates", "delay_bwe",
      "probe_result", "probe_success", "constraint_apply", "delay_limit",
      "receiver_limit", "pushback" }

\* Fragments the resolver's regex  Time: (\d+) ms|at (\d+) ms  matches.  The
\* decision grammar writes "at (\d+)ms", without the blank, and is not one.
TokenKinds == TimeKinds \cup {"time_token", "at_token"}

\* Sample values of the capture groups other than the timestamp.
SampleVals(kind) ==
    CASE kind = "trendline"         -> {<<"5", "7", "Normal">>}
      [] kind = "rtt_bwe"           -> {<<10, 20, 30, "false">>}
      [] kind = "loss_bwe"          -> {<<1, 1000, 4>>}
      [] kind = "loss_candidates"   -> {<<"100", "200">>}
      [] kind = "delay_bwe"         -> {<<1000, "false">>}
      [] kind = "probe_result"      -> {<<3, 5000>>}
      [] kind = "probe_success"     -> {<<3, 6000>>}
      [] kind = "probe_result_old"  -> {<<3, 5000>>}
      [] kind = "probe_success_old" -> {<<3, 6000>>}
      [] kind = "decision"          -> {<<"Hold">>}
      [] kind = "constraint_apply"  -> {<<9, 8, 8, 1, 8, 8, 9, 9>>}
      [] kind = "delay_limit"       -> {<<8, 7, 9>>}
      [] kind = "receiver_limit"    -> {<<8, 7, 9>>}
      [] kind = "config_limit"      -> {<<1, 2, 8, 9, 5>>}
      [] kind = "pushback"          -> {<<9, 6, 1, 3, "33">>}
      [] OTHER                      -> {<<>>}

\* Grammars with a timestamp group: the TimeKinds, the decision snapshot
\* ("at Nms") and the two free tokens.
HasTime(kind) == kind \in TokenKinds \cup {"decision"}

SegsOf(kinds) ==
    UNION { IF HasTime(k)
            THEN { Seg(k, Some(t), v) : t \in Timestamps, v \in SampleVals(k) }
            ELSE { Seg(k, None, v) : v \in SampleVals(k) } : k \in kinds }

\* Lines of one fragment, and lines of one or two fragments.
Lines1(segs) == { <<s>> : s \in segs }

Lines2(segs) == Lines1(segs) \cup { <<s, t>> : s \in segs, t \in segs }

(***************************************************************************)
(* parse_log_file, one line                                                *)
(***************************************************************************)
\* Index of the first fragment of `line` with a kind in `kinds`, else 0.
FirstOf(kinds, line) ==
    LET hits == { i \in 1..Len(line) : line[i].kind \in kinds }
    IN  IF hits = {} THEN 0 ELSE CHOOSE i \in hits : \A j \in hits : i <= j

\* self.patterns[p].search(line): 0 is "no match".
Search(p, line) == FirstOf({p}, line)

\* A resolver that keeps the first timestamp of the run.
ResolveOnce(line, last) ==
    LET i == FirstOf(TokenKinds, line)
    IN  IF i = 0 \/ last # None THEN last ELSE Some(line[i].time[1])

\* A resolver that never lets the timestamp go back.
ResolveMax(line, last) ==
    LET i == FirstOf(TokenKinds, line)
    IN  IF i = 0 \/ (last # None /\ last[1] >= line[i].time[1])
        THEN last ELSE Some(line[i].time[1])

\* The timestamp resolver: lines 77-79.
ResolveTimestamp(line, last) ==
    LET i == FirstOf(TokenKinds, line)
    IN  IF i = 0 THEN last ELSE Some(line[i].time[1])

\* float(text) of the sample texts: a number, NaN for "nan", and no value
\* (ValueError) for any other text.
NumericTexts == {"5", "7", "33", "100", "200", "300", "1.001"}

\* The number a numeric text denotes, in thousandths.
NumberOf(text) ==
    CASE text = "5" -> 5000 [] text = "7" -> 7000 [] text = "33" -> 33000
      [] text = "100" -> 100000 [] text = "200" -> 200000
      [] text = "300" -> 300000 [] text = "1.001" -> 1001
      [] OTHER -> 0

\* A float: NaN, or the number `num` thousandths.
Float(n) == [nan |-> FALSE, num |-> n]

NaN == [nan |-> TRUE, num |-> 0]

FloatRaises(text) == text \notin NumericTexts \cup {"nan"}

FloatOf(text) == IF text = "nan" THEN NaN ELSE Float(NumberOf(text))

\* Lines 90-93: 'nan' is replaced before float() is called.
ModifiedTrendVal(text) ==
    IF text = "nan" \/ FloatRaises(text) THEN Float(0) ELSE FloatOf(text)

\* Lines 95-98: float() is called on the text as it is.
ThresholdVal(text) == IF FloatRaises(text) THEN Float(0) ELSE FloatOf(text)

\* Line 144: group 2 of the candidates pattern, "(.+)", runs to the end of
\* the line, split at ",": the items of the fragment and, as one more item,
\* the text of each fragment behind it (never a number).
ListItems(line, i) ==
    line[i].vals \o [j \in 1..(Len(line) - i) |-> "text"]

\* Line 146, the filter of the comprehension: empty items are left out.
KeptItems(items) == SelectSeq(items, LAMBDA x : x # "")

\* Line 146: each kept item through float().
Candidates(items) ==
    LET kept == KeptItems(items)
    IN  [i \in 1..Len(kept) |-> FloatOf(kept[i])]

RECURSIVE PyMaxFrom(_, _, _)

\* max() of a list of floats: the running value is replaced by a later item
\* only when "item > value" holds, which is false when either is NaN.
PyMaxFrom(cands, k, best) ==
    IF k > Len(cands) THEN best
    ELSE LET x == cands[k]
         IN  PyMaxFrom(cands, k + 1,
                 IF ~x.nan /\ ~best.nan /\ x.num > best.num THEN x ELSE best)

PyMax(cands) == PyMaxFrom(cands, 2, cands[1])

\* int(x * 1000) in double arithmetic: the product of 1.001 and 1000 is
\* 1000.9999999999999, which int() cuts to 1000; the products of the other
\* sample values are exact.
IntTimes1000(x) == IF x.num = 1001 THEN 1000 ELSE x.num

\* Line 151: int(max(candidates) * 1000) if candidates else 0.
CandidateBandwidth(cands) ==
    IF cands = <<>> THEN 0 ELSE IntTimes1000(PyMax(cands))

\* Line 146 raises ValueError when float() rejects an item, line 151 when
\* int() is given NaN.
CandidatesRaise(items) ==
    \/ \E k \in 1..Len(items) : items[k] # "" /\ FloatRaises(items[k])
    \/ Candidates(items) # <<>> /\ PyMax(Candidates(items)).nan

\* The ten lists of lines 58-69, by the key of the returned dict.
SeriesNames ==
    { "trendline", "rtt", "loss", "probe", "decision", "constraint_apply",
      "delay_limit", "receiver_limit", "config_limit", "pushback" }

EmptyData == [s \in SeriesNames |-> <<>>]

\* The list a matched pattern appends to.
SeriesOf(p) ==
    CASE p = "trendline" -> "trendline"
      [] p = "rtt_bwe" -> "rtt"
      [] p \in {"loss_bwe", "loss_candidates"} -> "loss"
      [] p \in {"probe_result", "probe_success", "probe_result_old",
                "probe_success_old"} -> "probe"
      [] p = "decision" -> "decision"
      [] p = "constraint_apply" -> "constraint_apply"
      [] p = "delay_limit" -> "delay_limit"
      [] p = "receiver_limit" -> "receiver_limit"
      [] p = "pushback" -> "pushback"

\* A candidates record without the marker: state 0, as an estimate has.
CandidatesRecordUnmarked(seg) ==
    [timestamp |-> seg.time[1], state |-> 0,
     bandwidth |-> CandidateBandwidth(Candidates(seg.vals)),
     observations |-> Len(Candidates(seg.vals)),
     candidates |-> Candidates(seg.vals)]

\* Lines 148-154: the dict of a LossBWE-Candidates line.
CandidatesRecord(seg) ==
    [timestamp |-> seg.time[1], state |-> -1,
     bandwidth |-> CandidateBandwidth(Candidates(seg.vals)),
     observations |-> Len(Candidates(seg.vals)),
     candidates |-> Candidates(seg.vals)]

Min(a, b) == IF a <= b THEN a ELSE b

\* A constraint record brought back into final <= after_upper <= original.
ConstraintRecordClamped(seg) ==
    LET after == Min(seg.vals[3], seg.vals[1])
    IN  [timestamp |-> seg.time[1], original |-> seg.vals[1],
         upper_limit |-> seg.vals[2], after_upper |-> after,
         min_config |-> seg.vals[4], final |-> Min(seg.vals[5], after),
         delay_limit |-> seg.vals[6], receiver_limit |-> seg.vals[7],
         max_config |-> seg.vals[8]]

\* Lines 229-248: the dict of a BWE-ConstraintApply line, group k+1 of the
\* match in vals[k].
ConstraintRecord(seg) ==
    [timestamp |-> seg.time[1], original |-> seg.vals[1],
     upper_limit |-> seg.vals[2], after_upper |-> seg.vals[3],
     min_config |-> seg.vals[4], final |-> seg.vals[5],
     delay_limit |-> seg.vals[6], receiver_limit |-> seg.vals[7],
     max_config |-> seg.vals[8]]

\* The dict a matched pattern appends, from the groups of its match `seg`.
RecordOf(p, seg, last) ==
    CASE p = "trendline" ->
           [timestamp |-> seg.time[1],
            modified_trend |-> ModifiedTrendVal(seg.vals[1]),
            threshold |-> ThresholdVal(seg.vals[2]),
            state |-> seg.vals[3]]
      [] p = "rtt_bwe" ->
           [timestamp |-> seg.time[1], corrected_rtt |-> seg.vals[2],
            rtt_limit |-> seg.vals[3], above_limit |-> (seg.vals[4] = "true")]
      [] p = "loss_bwe" ->
           [timestamp |-> seg.time[1], state |-> seg.vals[1],
            bandwidth |-> seg.vals[2], observations |-> seg.vals[3]]
      [] p = "loss_candidates" -> CandidatesRecord(seg)
      [] p = "probe_result" ->
           [timestamp |-> seg.time[1], cluster_id |-> seg.vals[1],
            estimate |-> seg.vals[2], source |-> "result"]
      [] p = "probe_success" ->
           [timestamp |-> seg.time[1], cluster_id |-> seg.vals[1],
            estimate |-> seg.vals[2], source |-> "success"]
      [] p = "probe_result_old" ->
           [timestamp |-> last[1], cluster_id |-> seg.vals[1],
            estimate |-> seg.vals[2], source |-> "result_old"]
      [] p = "probe_success_old" ->
           [timestamp |-> last[1], cluster_id |-> seg.vals[1],
            estimate |-> seg.vals[2], source |-> "success_old"]
      [] p = "decision" ->
           [timestamp |-> seg.time[1], decision_reason |-> seg.vals[1]]
      [] p = "constraint_apply" -> ConstraintRecord(seg)
      [] p \in {"delay_limit", "receiver_limit"} ->
           [timestamp |-> seg.time[1], old_limit |-> seg.vals[1],
            new_limit |-> seg.vals[2], current_target |-> seg.vals[3]]
      [] p = "pushback" ->
           [timestamp |-> seg.time[1], original_rate |-> seg.vals[1],
            pushback_rate |-> seg.vals[2], min_bitrate |-> seg.vals[3],
            reduction |-> seg.vals[4],
            reduction_ratio |-> FloatOf(seg.vals[5])]

\* The loop body with the fallback probe blocks before the timestamped ones.
LegacyFirstOrder ==
    << "trendline", "rtt_bwe", "loss_bwe", "loss_candidates",
       "probe_result_old", "probe_success_old", "probe_result",
       "probe_success", "decision", "constraint_apply", "delay_limit",
       "receiver_limit", "pushback" >>

\* The order of the "if ...match:" blocks of the loop body, lines 81-302.
PatternOrder ==
    << "trendline", "rtt_bwe", "loss_bwe", "loss_candidates", "probe_result",
       "probe_success", "probe_result_old", "probe_success_old", "decision",
       "constraint_apply", "delay_limit", "receiver_limit", "pushback" >>

\* The condition of the block of pattern p: "if m:", and for the two
\* fallback patterns "if m and last_timestamp:".
Emits(p, line, last) ==
    /\ Search(p, line) # 0
    /\ p \in {"probe_result_old", "probe_success_old"} => Truthy(last)

\* list.insert(0, record)
PrependRecord(list, rec) == <<rec>> \o list

\* The list holds the latest record only.
KeepLatestRecord(list, rec) == <<rec>>

\* list.append(record)
AppendRecord(list, rec) == Append(list, rec)

RECURSIVE ClassifyFrom(_, _, _, _)

\* A block without its "continue": the later blocks run too.
FallThrough(i, line, last, data) == ClassifyFrom(i + 1, line, last, data)

\* The "continue" that ends every block: the rest of the loop body is skipped.
Continue(i, line, last, data) == data

\* The loop body from its i-th block on.
ClassifyFrom(i, line, last, data) ==
    IF i > Len(PatternOrder) THEN data
    ELSE LET p == PatternOrder[i]
         IN  IF Emits(p, line, last)
             THEN Continue(i, line, last,
                    [data EXCEPT ![SeriesOf(p)] =
                        AppendRecord(@, RecordOf(p, line[Search(p, line)], last))])
             ELSE ClassifyFrom(i + 1, line, last, data)

\* The block of pattern p raises: the candidates block at lines 146 and 151,
\* the pushback block at float(group 6), line 292.  No other block converts
\* a group that its pattern lets be a non-number outside a try.
RaisesAt(p, line) ==
    CASE p = "loss_candidates" ->
           CandidatesRaise(ListItems(line, Search(p, line)))
      [] p = "pushback" -> FloatRaises(line[Search(p, line)].vals[5])
      [] OTHER -> FALSE

\* The first block of the loop body that is entered raises.
Raises(line, last) ==
    \E i \in 1..Len(PatternOrder) :
        /\ Emits(PatternOrder[i], line, last)
        /\ RaisesAt(PatternOrder[i], line)
        /\ \A j \in 1..(i - 1) : ~Emits(PatternOrder[j], line, last)

\* The loop body with a line that matches no block recorded as a decision.
ParseLineKeepsUnknown(line, last, data) ==
    LET ts == ResolveTimestamp(line, last)
        unknown == \A i \in 1..Len(PatternOrder) :
                       ~Emits(PatternOrder[i], line, ts)
    IN  [raised |-> Raises(line, ts), last |-> ts,
         data |-> IF unknown
                  THEN [data EXCEPT !["decision"] =
                           Append(@, [timestamp |-> 0,
                                      decision_reason |-> "Unknown"])]
                  ELSE ClassifyFrom(1, line, ts, data)]

\* The loop body, lines 76-302: whether it raises, and else the new
\* last_timestamp and the new lists.
ParseLine(line, last, data) ==
    LET ts == ResolveTimestamp(line, last)
    IN  [raised |-> Raises(line, ts), last |-> ts,
         data |-> ClassifyFrom(1, line, ts, data)]

(***************************************************************************)
(* State                                                                   *)
(***************************************************************************)
VARIABLES
    log_file,        \* the lines of the file at self.log_file_path
    file_state,      \* "ok", "missing" or "unreadable": what open() meets
    pc,              \* "idle", "parsing" (in the for loop), "returned",
                     \* "saved" (main is through), "failed" (an exception)
    pos,             \* 1-based number of the next line the loop reads
    last_timestamp,  \* the local of line 72
    data,            \* the ten lists of the running parse_log_file
    error,           \* the exception that left parse_log_file, or "none"
    returned,        \* the dicts parse_log_file has returned, oldest first
    timeline,        \* what plot_gcc_decision_metrics made of the last dict
    constraint,      \* what plot_constraint_analysis made of the last dict
    output,          \* analysis_results: the directory and its chart files
    flame,           \* the WebRTCFlameGraphGenerator reading the same log
    cpu              \* the WebRTCCPUAnalyzer and the perf report it reads

vars ==
    << log_file, file_state, pc, pos, last_timestamp, data, error, returned,
       timeline, constraint, output, flame, cpu >>

\* No statistics box: the loss panel of the chart was not drawn.
NoStats == [drawn |-> FALSE, bw_sum |-> 0, obs_sum |-> 0, n |-> 0, state |-> 0]

\* plot_gcc_decision_metrics has not been called.
NotPlotted ==
    [called |-> FALSE, drawn |-> FALSE, points |-> <<>>, loss_stats |-> NoStats]

\* plot_constraint_analysis has not been called.
NotAnalysed == [called |-> FALSE, drawn |-> FALSE, rows |-> <<>>]

\* Nothing written: no directory, no chart file.
NoOutput == [dir |-> FALSE, files |-> {}]

\* WebRTCFlameGraphGenerator.__init__, lines 22-54: the empty timeline.
\* parses counts the calls of parse_webrtc_logs; stack_data and report are
\* None until generate_flame_graph_data and generate_summary_report ran.
NewGenerator ==
    [pc |-> "new", parses |-> 0, timeline_data |-> <<>>, stack_data |-> None,
     report |-> None]

\* WebRTCCPUAnalyzer.__init__, lines 17-20, before main has parsed a report
\* file; report_file is the text of the cpu analysis file it will read,
\* categories the dict categorize_functions returns to
\* generate_summary_report.
NewAnalyzer ==
    [pc |-> "new", report_file |-> <<>>, hotspots |-> <<>>,
     categories |-> None, report |-> None]

Init ==
    /\ log_file = <<>>
    /\ file_state = "ok"
    /\ pc = "idle"
    /\ pos = 1
    /\ last_timestamp = None
    /\ data = EmptyData
    /\ error = "none"
    /\ returned = <<>>
    /\ timeline = NotPlotted
    /\ constraint = NotAnalysed
    /\ output = NoOutput
    /\ flame = NewGenerator
    /\ cpu = NewAnalyzer

\* The logged program writes one more line, before the analyzer runs.
WriteLog(lines, max) ==
    /\ pc = "idle"
    /\ file_state = "ok"
    /\ Len(log_file) < max
    /\ \E line \in lines : log_file' = Append(log_file, line)
    /\ UNCHANGED << file_state, pc, pos, last_timestamp, data, error, returned,
                    timeline, constraint, output >>
    /\ UNCHANGED <<flame, cpu>>

\* The file is removed, or made unreadable, before the analyzer runs.
LoseLog ==
    /\ pc = "idle"
    /\ file_state = "ok"
    /\ \/ file_state' = "missing" /\ log_file' = <<>>
       \/ file_state' = "unreadable" /\ log_file' = log_file
    /\ UNCHANGED << pc, pos, last_timestamp, data, error, returned, timeline,
                    constraint, output >>
    /\ UNCHANGED <<flame, cpu>>

\* The exception open() raises at line 74.
OpenError ==
    CASE file_state = "missing" -> "FileNotFoundError"
      [] file_state = "unreadable" -> "PermissionError"
      [] OTHER -> "none"

\* parse_log_file entered with last_timestamp kept from the call before.
EnterParseStale ==
    /\ pos' = 1
    /\ data' = EmptyData
    /\ pc' = IF file_state = "ok" THEN "parsing" ELSE "failed"
    /\ error' = OpenError
    /\ UNCHANGED << log_file, file_state, last_timestamp, returned, timeline,
                    constraint, output >>
    /\ UNCHANGED <<flame, cpu>>

\* parse_log_file reading a file it cannot open as an empty one.
EnterParseLenient ==
    /\ pos' = 1
    /\ last_timestamp' = None
    /\ data' = EmptyData
    /\ pc' = "parsing"
    /\ error' = "none"
    /\ UNCHANGED << log_file, file_state, returned, timeline, constraint,
                    output >>
    /\ UNCHANGED <<flame, cpu>>

\* parse_log_file is entered: lines 57-74.  open() raises when the file is
\* missing or unreadable, and the exception leaves parse_log_file.
EnterParse ==
    /\ pos' = 1
    /\ last_timestamp' = None
    /\ data' = EmptyData
    /\ pc' = IF file_state = "ok" THEN "parsing" ELSE "failed"
    /\ error' = OpenError
    /\ UNCHANGED << log_file, file_state, returned, timeline, constraint,
                    output >>
    /\ UNCHANGED <<flame, cpu>>

\* analyzer.parse_log_file(), the first call.
StartParse ==
    /\ pc = "idle"
    /\ EnterParse

\* parse_log_file called again on the same analyzer.
Reparse ==
    /\ pc = "returned"
    /\ Len(returned) < MaxRuns
    /\ EnterParse

\* The line holds bytes that are not UTF-8.
Undecodable(line) == \E i \in 1..Len(line) : line[i].kind = "bad_bytes"

\* One iteration of "for line in f".  An exception of the loop body leaves
\* parse_log_file: nothing is returned.  The file is opened with the strict
\* error handler (line 74), so an undecodable line is never handed to the
\* loop body.
ReadLine ==
    /\ pc = "parsing"
    /\ pos <= Len(log_file)
    /\ ~Undecodable(log_file[pos])
    /\ \E r \in {ParseLine(log_file[pos], last_timestamp, data)} :
           IF r.raised
           THEN /\ pc' = "failed"
                /\ error' = "ValueError"
                /\ UNCHANGED <<pos, last_timestamp, data>>
           ELSE /\ last_timestamp' = r.last
                /\ data' = r.data
                /\ pos' = pos + 1
                /\ UNCHANGED <<pc, error>>
    /\ UNCHANGED << log_file, file_state, returned, timeline, constraint,
                    output >>
    /\ UNCHANGED <<flame, cpu>>

\* "for line in f" decodes the file a chunk at a time: the chunk that holds
\* an undecodable line raises UnicodeDecodeError when it is read, which is
\* at that line or at a line before it of the same chunk.
DecodeFails ==
    /\ pc = "parsing"
    /\ \E i \in pos..Len(log_file) : Undecodable(log_file[i])
    /\ pc' = "failed"
    /\ error' = "UnicodeDecodeError"
    /\ UNCHANGED << log_file, file_state, pos, last_timestamp, data, returned,
                    timeline, constraint, output, flame, cpu >>

\* End of file: lines 304-341, the lists are returned as the dict.
ReturnSeries ==
    /\ pc = "parsing"
    /\ pos > Len(log_file)
    /\ returned' = Append(returned, data)
    /\ pc' = "returned"
    /\ UNCHANGED << log_file, file_state, pos, last_timestamp, data, error,
                    timeline, constraint, output >>
    /\ UNCHANGED <<flame, cpu>>

\* reason_map without the fillna(0): an unknown token has no rank (-1).
ReasonRankNoFill(reason) ==
    CASE reason = "Hold" -> 0
      [] reason = "LossEstimate" -> 1
      [] reason = "ProbeResult" -> 2
      [] reason = "RttBackoff" -> 3
      [] reason = "DelayLimit" -> 4
      [] OTHER -> -1

\* reason_map of lines 580-586 with .map(reason_map).fillna(0) of line 587.
ReasonRank(reason) ==
    CASE reason = "Hold" -> 0
      [] reason = "LossEstimate" -> 1
      [] reason = "ProbeResult" -> 2
      [] reason = "RttBackoff" -> 3
      [] reason = "DelayLimit" -> 4
      [] OTHER -> 0

\* Lines 353-355: "Insufficient data", nothing is drawn and None is returned.
Insufficient(d) == d.trendline = <<>> /\ d.rtt = <<>> /\ d.loss = <<>>

RECURSIVE SumOf(_, _, _)

\* The sum of column `field` over the rows k.. of a frame.
SumOf(rows, field, k) ==
    IF k > Len(rows) THEN 0 ELSE rows[k][field] + SumOf(rows, field, k + 1)

\* Series.mode().iloc[0]: the smallest of the most frequent values.
ModeOf(rows, field) ==
    LET vals == { rows[i][field] : i \in 1..Len(rows) }
        count(v) == Cardinality({ i \in 1..Len(rows) : rows[i][field] = v })
        top == { v \in vals : \A w \in vals : count(w) <= count(v) }
    IN  CHOOSE v \in top : \A w \in top : v <= w

\* The statistics box of lines 491-493 for the rows `rows`; a mean is kept
\* as its sum and its number of rows.
StatsOf(rows) ==
    [drawn |-> TRUE, bw_sum |-> SumOf(rows, "bandwidth", 1),
     obs_sum |-> SumOf(rows, "observations", 1), n |-> Len(rows),
     state |-> ModeOf(rows, "state")]

\* The statistics taken over the whole loss frame.
LossStatsUnfiltered(loss) ==
    IF loss = <<>> THEN NoStats ELSE StatsOf(loss)

\* Lines 451-456 and 490-493: estimates_df = loss_df[loss_df['state'] >= 0],
\* and the statistics of estimates_df when it is not empty.
LossStats(loss) ==
    LET estimates_df == SelectSeq(loss, LAMBDA r : r.state >= 0)
    IN  IF loss = <<>> \/ estimates_df = <<>> THEN NoStats
        ELSE StatsOf(estimates_df)

\* plot_gcc_decision_metrics(data_dict), its loss panel and its decision
\* part: lines 347-355, 451-497 and 575-587.  points: the rows (timestamp,
\* decision_numeric) of decision_df.
PlotResult(d) ==
    IF Insufficient(d)
    THEN [called |-> TRUE, drawn |-> FALSE, points |-> <<>>,
          loss_stats |-> NoStats]
    ELSE [called |-> TRUE, drawn |-> TRUE,
          points |-> [i \in 1..Len(d.decision) |->
                        [timestamp |-> d.decision[i].timestamp,
                         decision_numeric |->
                             ReasonRank(d.decision[i].decision_reason)]],
          loss_stats |-> LossStats(d.loss)]

\* analyzer.plot_gcc_decision_metrics(data_dict) on the dict just returned.
PlotDecisionMetrics ==
    /\ pc = "returned"
    /\ ~timeline.called
    /\ timeline' = PlotResult(returned[Len(returned)])
    /\ UNCHANGED << log_file, file_state, pc, pos, last_timestamp, data, error,
                    returned, constraint, output >>
    /\ UNCHANGED <<flame, cpu>>

\* constraint_df['timestamp'].min()
MinTimestamp(rows) ==
    LET ts == { rows[i].timestamp : i \in 1..Len(rows) }
    IN  CHOOSE t \in ts : \A u \in ts : t <= u

\* plot_constraint_analysis(data_dict), lines 624-745: None without a
\* constraint record, else what the six panels draw of each record.  The
\* values are in bps and ms (the chart divides both by 1000); delay_fill and
\* effect_fill are the "where" masks of the two shaded regions.
ConstraintChart(d) ==
    LET df == d.constraint_apply
    IN  IF df = <<>> THEN [called |-> TRUE, drawn |-> FALSE, rows |-> <<>>]
        ELSE [called |-> TRUE, drawn |-> TRUE,
              rows |-> [i \in 1..Len(df) |->
                  [time |-> df[i].timestamp - MinTimestamp(df),
                   original |-> df[i].original,
                   delay_limit |-> df[i].delay_limit,
                   receiver_limit |-> df[i].receiver_limit,
                   upper_limit |-> df[i].upper_limit,
                   max_config |-> df[i].max_config,
                   min_config |-> df[i].min_config,
                   final |-> df[i].final,
                   delay_fill |-> df[i].delay_limit < df[i].original,
                   effect_fill |-> df[i].final < df[i].original]]]

\* analyzer.plot_constraint_analysis(data_dict), line 759 of main.
PlotConstraintAnalysis ==
    /\ pc = "returned"
    /\ timeline.called
    /\ ~constraint.called
    /\ constraint' = ConstraintChart(returned[Len(returned)])
    /\ UNCHANGED << log_file, file_state, pc, pos, last_timestamp, data, error,
                    returned, timeline, output >>
    /\ UNCHANGED <<flame, cpu>>

\* Lines 761-773 of main: the directory is made and each figure that is not
\* None is saved.
SaveCharts ==
    /\ pc = "returned"
    /\ timeline.called
    /\ constraint.called
    /\ output' =
          [dir |-> TRUE,
           files |->
              (IF timeline.drawn
               THEN {"gcc_decision_analysis_vertical.png"} ELSE {})
              \cup (IF constraint.drawn
                    THEN {"gcc_constraint_analysis.png"} ELSE {})]
    /\ pc' = "saved"
    /\ UNCHANGED << log_file, file_state, pos, last_timestamp, data, error,
                    returned, timeline, constraint >>
    /\ UNCHANGED <<flame, cpu>>

(***************************************************************************)
(* Logs and specifications                                                 *)
(***************************************************************************)
\* A log of one line.
WriteOneLineLog(lines) ==
    /\ pc = "idle"
    /\ log_file = <<>>
    /\ \E line \in lines : log_file' = <<line>>
    /\ UNCHANGED << file_state, pc, pos, last_timestamp, data, error, returned,
                    timeline, constraint, output >>
    /\ UNCHANGED <<flame, cpu>>

AllKinds == PatternNames \cup {"time_token", "at_token", "text"}

\* Every grammar, one fragment a line.
AllLines == Lines1(SegsOf(AllKinds))

\* Timestamp carry-forward: lines with and without a token, classified or not,
\* the two legacy probe grammars, and a legacy probe behind a token.
CarryKinds ==
    { "time_token", "at_token", "text", "trendline", "decision",
      "probe_result_old", "probe_success_old" }

CarryLines ==
    Lines1(SegsOf(CarryKinds))
        \cup { <<s, t>> : s \in SegsOf({"time_token"}),
                          t \in SegsOf({"probe_result_old"}) }

\* The probe and the loss subsystem, and a timestamp of neither.
OrderKinds ==
    { "probe_result", "probe_success", "probe_result_old", "loss_bwe",
      "loss_candidates", "time_token" }

OrderLines == Lines1(SegsOf(OrderKinds))

\* Every grammar the loop body classifies, and a free timestamp token.
RerunKinds ==
    { "trendline", "rtt_bwe", "loss_bwe", "loss_candidates", "probe_result",
      "probe_success", "probe_result_old", "probe_success_old", "decision",
      "constraint_apply", "delay_limit", "receiver_limit", "pushback",
      "time_token" }

RerunLines == Lines1(SegsOf(RerunKinds))

\* Lines of one or two fragments of any grammar.
MultiLines == Lines2(SegsOf(AllKinds))

\* Decision snapshots of every reason token, known and unknown.
ReasonTokens ==
    {"Hold", "LossEstimate", "ProbeResult", "RttBackoff", "DelayLimit", "Probing"}

DecisionLines ==
    { <<Seg("decision", Some(t), <<r>>)>> : t \in Timestamps, r \in ReasonTokens }
        \cup Lines1(SegsOf({"trendline", "loss_bwe"}))

\* Candidate lists as line 146 splits them: the spec's example, a list with
\* a trailing comma, a list of no value, a fraction, a word, and NaN first
\* and last.
CandidateLists ==
    { <<"100", "200", "300">>, <<"200", "100", "">>, <<"">>, <<"1.001">>,
      <<"100", "abc">>, <<"nan", "100">>, <<"100", "nan">> }

\* Groups 2-4 of LossBWE-Estimate lines: state, bandwidth, observations.
EstimateVals == { <<0, 1000, 4>>, <<1, 3000, 2>> }

LossTimes == {1, MaxTs}

\* The loss subsystem: candidate lines, one of them with text behind the
\* list, and estimate lines.
LossLines ==
    { <<Seg("loss_candidates", Some(t), c)>> : t \in LossTimes,
                                               c \in CandidateLists }
        \cup { <<Seg("loss_bwe", Some(t), v)>> : t \in LossTimes,
                                                 v \in EstimateVals }
        \cup { <<Seg("loss_candidates", Some(1), <<"100">>),
                 Seg("text", None, <<>>)>> }

\* Texts of a free-form numeric group: a number, 'nan' and a word.
FieldTexts(number) == {number, "nan", "abc"}

\* The lines with a free-form numeric group: Trendline (modified trend and
\* threshold, "[^,]+"), LossBWE-Candidates (the list, ".+") and
\* CongestionWindowPushback (ReductionRatio, "[^%]+").
NumericLines ==
    { <<Seg("trendline", Some(t), <<m, th, "Normal">>)>> :
          t \in LossTimes, m \in FieldTexts("5"), th \in FieldTexts("7") }
        \cup { <<Seg("loss_candidates", Some(t), c)>> :
                  t \in LossTimes, c \in {<<"100", "200">>, <<"100", "abc">>} }
        \cup { <<Seg("pushback", Some(t), <<9, 6, 1, 3, r>>)>> :
                  t \in LossTimes, r \in FieldTexts("33") }

\* Groups 2-9 of BWE-ConstraintApply lines (original, upper limit, after
\* upper, min config, final, delay limit, receiver limit, max config): two
\* that keep final <= after upper <= original, one of them with final equal
\* to original, and three that break it.
ConstraintVals ==
    { <<9, 8, 8, 1, 8, 8, 9, 9>>, <<6, 6, 6, 1, 6, 6, 6, 9>>,
      <<1, 2, 3, 4, 5, 6, 7, 8>>, <<5, 9, 5, 1, 7, 9, 9, 9>>,
      <<5, 4, 4, 1, 5, 4, 9, 9>> }

\* The input of main: constraint lines, and a Trendline line for the first
\* chart.
MainLines ==
    { <<Seg("constraint_apply", Some(t), v)>> : t \in LossTimes,
                                                v \in ConstraintVals }
        \cup { <<Seg("trendline", Some(1), <<"5", "7", "Normal">>)>> }

ParseActions == StartParse \/ ReadLine \/ ReturnSeries

Next ==
    \/ WriteLog(AllLines, MaxLinesAll)
    \/ ParseActions

Spec == Init /\ [][Next]_vars

NextCarry ==
    \/ WriteLog(CarryLines, MaxLines)
    \/ ParseActions

SpecCarry == Init /\ [][NextCarry]_vars

NextOrder ==
    \/ WriteLog(OrderLines, MaxLines)
    \/ ParseActions

SpecOrder == Init /\ [][NextOrder]_vars

NextMulti ==
    \/ WriteOneLineLog(MultiLines)
    \/ ParseActions

SpecMulti == Init /\ [][NextMulti]_vars

NextDecision ==
    \/ WriteLog(DecisionLines, MaxLinesAll)
    \/ ParseActions
    \/ PlotDecisionMetrics

SpecDecision == Init /\ [][NextDecision]_vars

NextRerun ==
    \/ WriteLog(RerunLines, MaxLinesAll)
    \/ ParseActions
    \/ Reparse

SpecRerun == Init /\ [][NextRerun]_vars

NextLoss ==
    \/ WriteLog(LossLines, MaxLines)
    \/ ParseActions
    \/ PlotDecisionMetrics

SpecLoss == Init /\ [][NextLoss]_vars

NextNumeric ==
    \/ WriteLog(NumericLines, MaxLinesAll)
    \/ ParseActions

SpecNumeric == Init /\ [][NextNumeric]_vars

\* main(), lines 747-778: parse, the two charts, the files.
NextMain ==
    \/ WriteLog(MainLines, MaxLines)
    \/ LoseLog
    \/ ParseActions
    \/ PlotDecisionMetrics
    \/ PlotConstraintAnalysis
    \/ SaveCharts

SpecMain == Init /\ [][NextMain]_vars

(***************************************************************************)
(* WebRTCFlameGraphGenerator (generate_webrtc_flamegraph.py)               *)
(*                                                                         *)
(* The generator reads the same log.  Its lines hold one grammar fragment  *)
(* each, with undecodable bytes before or behind it: a VideoQuality        *)
(* fragment is Seg("video_quality", time, <<type, fps, decode_ms>>), type  *)
(* being the dot-separated parts of the text behind "VideoQuality-" and    *)
(* fps and decode_ms None when the details lack the field; an RTP fragment *)
(* is Seg("rtp", None, <<function>>), a thread.cc fragment is              *)
(* Seg("thread_timing", None, <<ms>>).                                     *)
(***************************************************************************)
\* Most lines of a log the generator reads, and most calls of
\* parse_webrtc_logs on one generator.
MaxFlameLines == 3
MaxParses == 2

\* open(..., errors='ignore'), line 60: the undecodable bytes are dropped
\* and the rest of the line is kept.
Decoded(line) == SelectSeq(line, LAMBDA s : s.kind # "bad_bytes")

\* The fragments  \[([^-]+BWE-[^\]]+)\] Time: (\d+) ms, (.+)  matches.
BweKinds ==
    { "rtt_bwe", "loss_bwe", "loss_candidates", "delay_bwe", "probe_result",
      "probe_success" }

\* Group 1 of gcc_bwe: the text between the brackets.
EventType(kind) ==
    CASE kind = "rtt_bwe" -> "RttBWE-Update"
      [] kind = "loss_bwe" -> "LossBWE-Estimate"
      [] kind = "loss_candidates" -> "LossBWE-Candidates"
      [] kind = "delay_bwe" -> "DelayBWE-Decision"
      [] kind = "probe_result" -> "ProbeBWE-Result"
      [] kind = "probe_success" -> "ProbeBWE-Success"

\* The words of line 123: an RTP function is timed when its name holds one.
TimedWords(function) ==
    CASE function = "OnReceivePacket" -> {"Receive"}
      [] function = "ProcessDecodedFrame" -> {"Process", "Decode"}
      [] OTHER -> {}

\* The dict of _add_timeline_event, lines 137-143.  A function name is the
\* sequence of its dot-separated parts.
TimelineEvent(timestamp, function, duration) ==
    [timestamp |-> timestamp, function |-> function, duration |-> duration]

\* _parse_video_quality_events, lines 79-98.
VideoQualityEvents(line) ==
    LET i == Search("video_quality", line)
    IN  IF i = 0 THEN <<>>
        ELSE LET ts == line[i].time[1]
                 type == line[i].vals[1]
                 fps == line[i].vals[2]
                 decode == line[i].vals[3]
             IN  (IF fps # None
                  THEN <<TimelineEvent(ts,
                            <<"VideoQuality">> \o type \o <<"ProcessFrame">>,
                            fps[1] * 10)>>
                  ELSE <<>>)
                 \o (IF decode # None /\ decode[1] > 0
                     THEN <<TimelineEvent(ts,
                               <<"VideoQuality">> \o type \o <<"Decode">>,
                               decode[1])>>
                     ELSE <<>>)

\* _parse_gcc_events, lines 100-114: both patterns are tried.
GccEvents(line) ==
    LET d == Search("decision", line)
        b == FirstOf(BweKinds, line)
    IN  (IF d = 0 THEN <<>>
         ELSE <<TimelineEvent(line[d].time[1], <<"GCC", "DecisionSnapshot">>, 5)>>)
        \o (IF b = 0 THEN <<>>
            ELSE <<TimelineEvent(line[b].time[1],
                                 <<"GCC", EventType(line[b].kind)>>, 3)>>)

\* max(1, line_num % 50), line 125.
RtpDuration(line_num) == IF line_num % 50 > 1 THEN line_num % 50 ELSE 1

\* _parse_rtp_events, lines 116-127: the timestamp is the line number.
RtpEvents(line, line_num) ==
    LET i == Search("rtp", line)
    IN  IF i = 0 \/ TimedWords(line[i].vals[1]) = {} THEN <<>>
        ELSE <<TimelineEvent(line_num * 100, <<"RTP", line[i].vals[1]>>,
                             RtpDuration(line_num))>>

\* _parse_thread_timing, lines 129-135.
ThreadTimingEvents(line, line_num) ==
    LET i == Search("thread_timing", line)
    IN  IF i = 0 THEN <<>>
        ELSE <<TimelineEvent(line_num * 100, <<"Threading", "MessageDispatch">>,
                             line[i].vals[1])>>

\* The loop body, lines 67-75, on the decoded line; a blank line has no
\* fragment and no event.
EventsOfLine(line, line_num) ==
    LET l == Decoded(line)
    IN  VideoQualityEvents(l) \o GccEvents(l) \o RtpEvents(l, line_num)
            \o ThreadTimingEvents(l, line_num)

\* The loop of lines 66-75 from line n on, appending to the timeline.
RECURSIVE ParseFrom(_, _, _)
ParseFrom(file, n, events) ==
    IF n > Len(file) THEN events
    ELSE ParseFrom(file, n + 1, events \o EventsOfLine(file[n], n))

\* The timeline after parse_webrtc_logs, lines 56-77: the events are
\* appended to self.timeline_data, which only __init__ empties.
TimelineAfterParse(old, file) == ParseFrom(file, 1, old)

\* list.sort(key=timestamp) is stable: an event goes behind the events of
\* its own and of smaller timestamps.
InsertByTimestamp(sorted, e) ==
    LET k == Cardinality({ i \in 1..Len(sorted) :
                              sorted[i].timestamp <= e.timestamp })
    IN  SubSeq(sorted, 1, k) \o <<e>> \o SubSeq(sorted, k + 1, Len(sorted))

RECURSIVE SortFrom(_, _, _)
SortFrom(events, n, sorted) ==
    IF n > Len(events) THEN sorted
    ELSE SortFrom(events, n + 1, InsertByTimestamp(sorted, events[n]))

\* A timeline left in parse order.
Unsorted(events) == events

\* self.timeline_data.sort(key=lambda x: x['timestamp']), line 150.
SortByTimestamp(events) == SortFrom(events, 1, <<>>)

\* Sum of the durations of a list of events.
TotalDuration(events) == SumOf(events, "duration", 1)

\* The events of a category: function.split('.')[0], line 306.
EventsOfCategory(events, category) ==
    SelectSeq(events, LAMBDA e : e.function[1] = category)

\* The keys of function_stats in insertion order, lines 156-158.
RECURSIVE FunctionsFrom(_, _, _)
FunctionsFrom(events, n, seen) ==
    IF n > Len(events) THEN seen
    ELSE FunctionsFrom(events, n + 1,
            IF \E k \in 1..Len(seen) : seen[k] = events[n].function
            THEN seen ELSE Append(seen, events[n].function))

\* function_stats[function] += duration, line 158.
FunctionTotal(events, function) ==
    TotalDuration(SelectSeq(events, LAMBDA e : e.function = function))

\* Lines 161-168: the folded stack of a function and its value.
StackLine(function, total) ==
    [stack |-> IF Len(function) >= 2 THEN function ELSE <<"WebRTC", function[1]>>,
     value |-> total]

\* generate_flame_graph_data, lines 145-170, on the sorted timeline.
StackData(events) ==
    LET fs == FunctionsFrom(events, 1, <<>>)
    IN  [k \in 1..Len(fs) |-> StackLine(fs[k], FunctionTotal(events, fs[k]))]

\* The quotient cut off after the second decimal, in hundredths.
Truncate2(num, den) == (100 * num) \div den

\* round(num / den, 2) in hundredths, for num >= 0 and den > 0: the nearest
\* hundredth, the even one of two equally near.
Round2(num, den) ==
    LET q == (100 * num) \div den
        r == (100 * num) % den
    IN  IF 2 * r < den \/ (2 * r = den /\ q % 2 = 0) THEN q ELSE q + 1

\* max_time = max(max_time, duration) from 0, line 311.
MaxDuration(events) ==
    LET ds == { events[i].duration : i \in 1..Len(events) } \cup {0}
    IN  CHOOSE d \in ds : \A e \in ds : e <= d

\* The report of generate_summary_report, lines 298-330; the average is in
\* hundredths of a millisecond.
FlameReport(events) ==
    LET cats == { events[i].function[1] : i \in 1..Len(events) }
    IN  [total_events |-> Len(events),
         total_time_ms |-> TotalDuration(events),
         categories |->
            [c \in cats |->
                LET evs == EventsOfCategory(events, c)
                IN  [event_count |-> Len(evs),
                     total_time_ms |-> TotalDuration(evs),
                     average_time_ms |-> Round2(TotalDuration(evs), Len(evs)),
                     max_time_ms |-> MaxDuration(evs)]]]

\* generator.parse_webrtc_logs(), line 360 of main, which has found the
\* file to exist (line 350).
ParseWebrtcLogs ==
    /\ file_state = "ok"
    /\ flame.pc \in {"new", "parsed"}
    /\ flame.parses < MaxParses
    /\ flame' = [flame EXCEPT
                    !.pc = "parsed",
                    !.parses = @ + 1,
                    !.timeline_data = TimelineAfterParse(@, log_file)]
    /\ UNCHANGED << log_file, file_state, pc, pos, last_timestamp, data, error,
                    returned, timeline, constraint, output, cpu >>

\* stack_data = generator.generate_flame_graph_data(), line 363.
GenerateFlameGraphData ==
    /\ flame.pc = "parsed"
    /\ \E sorted \in {SortByTimestamp(flame.timeline_data)} :
          flame' = [flame EXCEPT !.pc = "stacked",
                                 !.timeline_data = sorted,
                                 !.stack_data = Some(StackData(sorted))]
    /\ UNCHANGED << log_file, file_state, pc, pos, last_timestamp, data, error,
                    returned, timeline, constraint, output, cpu >>

\* generator.generate_summary_report(), line 373, which main reaches when
\* stack_data is not empty (line 365).
FlameGenerateSummaryReport ==
    /\ flame.pc = "stacked"
    /\ flame.stack_data[1] # <<>>
    /\ flame' = [flame EXCEPT !.pc = "reported",
                              !.report = Some(FlameReport(flame.timeline_data))]
    /\ UNCHANGED << log_file, file_state, pc, pos, last_timestamp, data, error,
                    returned, timeline, constraint, output, cpu >>

\* The log is complete before the generator reads it.
WriteWebrtcLog(lines, max) ==
    /\ flame.pc = "new"
    /\ WriteLog(lines, max)

\* Undecodable bytes, as a fragment of a line.
BadBytes == Seg("bad_bytes", None, <<>>)

\* Lines both parsers classify, the same lines with undecodable bytes
\* before or behind the text, a line of such bytes only, and free text.
DecodeLines ==
    LET texts == { Seg("decision", Some(t), <<"Hold">>) : t \in LossTimes }
                    \cup { Seg("loss_bwe", Some(1), <<1, 1000, 4>>),
                           Seg("trendline", Some(1), <<"5", "7", "Normal">>) }
    IN  Lines1(texts) \cup { <<BadBytes, s>> : s \in texts }
            \cup { <<s, BadBytes>> : s \in texts }
            \cup { <<BadBytes>>, <<Seg("text", None, <<>>)>> }

\* Both parsers over one log.
NextDecode ==
    \/ WriteWebrtcLog(DecodeLines, MaxFlameLines)
    \/ ParseActions
    \/ DecodeFails
    \/ ParseWebrtcLogs

SpecDecode == Init /\ [][NextDecode]_vars

\* Timestamps of the lines the generator reads.
FlameTimes == {1, MaxTs}

\* Texts behind "VideoQuality-": fps and decode time, each present or not,
\* and a decode time of 0.
VideoQualityVals ==
    { <<<<"Inbound">>, Some(3), None>>, <<<<"Inbound">>, None, Some(4)>>,
      <<<<"Inbound">>, Some(2), Some(0)>>, <<<<"Outbound">>, Some(1), Some(7)>> }

\* A log of the generator: decision snapshots, BWE lines, VideoQuality
\* lines, an RTP function that is timed and one that is not, a thread.cc
\* timing, free text and a blank line.
FlameLines ==
    { <<Seg("decision", Some(t), <<"Hold">>)>> : t \in FlameTimes }
        \cup { <<Seg("loss_bwe", Some(MaxTs), <<1, 1000, 4>>)>>,
               <<Seg("rtt_bwe", Some(1), <<10, 20, 30, "false">>)>> }
        \cup { <<Seg("video_quality", Some(1), v)>> : v \in VideoQualityVals }
        \cup { <<Seg("rtp", None, <<f>>)>> : f \in {"OnReceivePacket", "SendPacket"} }
        \cup { <<Seg("thread_timing", None, <<7>>)>>,
               <<Seg("text", None, <<>>)>>, <<>> }

\* main(), lines 340-384: parse, the folded stacks, the report; and a
\* second parse on the same generator.
NextFlame ==
    \/ WriteWebrtcLog(FlameLines, MaxFlameLines)
    \/ ParseWebrtcLogs
    \/ GenerateFlameGraphData
    \/ FlameGenerateSummaryReport

SpecFlame == Init /\ [][NextFlame]_vars

(***************************************************************************)
(* WebRTCCPUAnalyzer (analyze_cpu_usage.py)                                *)
(*                                                                         *)
(* The analysis file is a sequence of lines: the column header of the perf *)
(* table, "#" comments, table rows, other text and blank lines.  A row is  *)
(* the text of its five columns; the symbol column is its blank-separated  *)
(* words.  Percentages are in hundredths of a percent, the two decimals    *)
(* perf prints.                                                            *)
(***************************************************************************)
\* Most lines of an analysis file, in the specification of the report and
\* in that of the categories.
MaxCpuLines == 4
MaxCategoryLines == 3

\* The line that holds 'Children      Self  Command'.
HeaderLine == [kind |-> "header"]

\* A line the row pattern of line 51 matches.
RowLine(children, shared_object, symbol) ==
    [kind |-> "row", children |-> children, self |-> "1.00",
     command |-> "peerconnection", shared_object |-> shared_object,
     symbol |-> symbol]

\* float() of a percentage column, in hundredths.
PercentOf(text) ==
    CASE text = "1.00" -> 100
      [] text = "5.00" -> 500
      [] text = "10.00" -> 1000
      [] text = "16.00" -> 1600

\* The dict of lines 54-60; symbol.split()[0] keeps the first word.
Hotspot(line) ==
    [children_percent |-> PercentOf(line.children),
     self_percent |-> PercentOf(line.self),
     command |-> line.command,
     shared_object |-> line.shared_object,
     symbol |-> line.symbol[1]]

\* The loop of lines 41-60 from line n on: rows count once the header line
\* has been met.
RECURSIVE HotspotsFrom(_, _, _, _)
HotspotsFrom(lines, n, in_hotspot_section, cpu_hotspots) ==
    IF n > Len(lines) THEN cpu_hotspots
    ELSE IF lines[n].kind = "header"
         THEN HotspotsFrom(lines, n + 1, TRUE, cpu_hotspots)
         ELSE IF in_hotspot_section /\ lines[n].kind = "row"
              THEN HotspotsFrom(lines, n + 1, in_hotspot_section,
                                Append(cpu_hotspots, Hotspot(lines[n])))
              ELSE HotspotsFrom(lines, n + 1, in_hotspot_section, cpu_hotspots)

\* parse_cpu_analysis_report, lines 22-65: cpu_hotspots[:20].
ParseCpuReport(lines) ==
    LET all == HotspotsFrom(lines, 1, FALSE, <<>>)
    IN  IF Len(all) > 20 THEN SubSeq(all, 1, 20) ELSE all

\* The keywords of lines 85-103 that a text holds, in lower case.
KeywordsIn(text) ==
    CASE text = "sys_sendmsg" -> {"send", "sendmsg", "sys_"}
      [] text = "udp_recvmsg" -> {"recv", "recvmsg"}
      [] text = "entry_SYSCALL_64" -> {"entry_", "syscall"}
      [] text = "VideoFrame::decode" -> {"decode", "frame", "video"}
      [] text = "opus_encode" -> {"encode", "opus"}
      [] text = "pcm_mix" -> {"pcm"}
      [] text = "memcpy" -> {"mem"}
      [] text = "pthread_mutex_lock" -> {"lock", "mutex", "pthread", "thread"}
      [] text = "libwebrtc.so" -> {"webrtc"}
      [] text = "peerconnection_client" -> {"peerconnection"}
      [] text = "[kernel.kallsyms]" -> {"kernel"}
      [] OTHER -> {}

\* The keys of the dict of lines 69-78, in its order.
CategoryNames ==
    << "Network I/O", "System Calls", "WebRTC Core", "Video Processing",
       "Audio Processing", "Memory Management", "Threading", "Other" >>

\* The keyword lists of lines 85-103.
CategoryWords(category) ==
    CASE category = "Network I/O" ->
            {"recvmsg", "sendmsg", "recv", "send", "socket", "net"}
      [] category = "System Calls" ->
            {"syscall", "sys_", "__sys", "entry_", "kernel"}
      [] category = "WebRTC Core" -> {"webrtc", "peerconnection"}
      [] category = "Video Processing" ->
            {"video", "frame", "decode", "encode", "vp8", "vp9", "h264"}
      [] category = "Audio Processing" -> {"audio", "sound", "pcm", "opus"}
      [] category = "Memory Management" ->
            {"malloc", "free", "alloc", "mem", "copy"}
      [] category = "Threading" -> {"thread", "pthread", "lock", "mutex"}
      [] OTHER -> {}

\* The test of one branch: WebRTC Core looks at the shared object, the
\* others at the symbol.
RuleMatches(category, hotspot) ==
    LET text == IF category = "WebRTC Core" THEN hotspot.shared_object
                ELSE hotspot.symbol
    IN  KeywordsIn(text) \cap CategoryWords(category) # {}

\* The chain with the video test ahead of the WebRTC Core test.
CategoryOfVideoFirst(hotspot) ==
    LET order == << "Network I/O", "System Calls", "Video Processing",
                    "WebRTC Core", "Audio Processing", "Memory Management",
                    "Threading" >>
        hits == { k \in 1..7 : RuleMatches(order[k], hotspot) }
    IN  IF hits = {} THEN "Other"
        ELSE order[CHOOSE k \in hits : \A j \in hits : k <= j]

\* The if/elif chain of lines 85-106: the first branch that matches.
CategoryOf(hotspot) ==
    LET hits == { k \in 1..7 : RuleMatches(CategoryNames[k], hotspot) }
    IN  IF hits = {} THEN "Other"
        ELSE CategoryNames[CHOOSE k \in hits : \A j \in hits : k <= j]

\* categorize_functions, lines 67-108: the list of each category.
CategorizeFunctions(hotspots) ==
    [c \in { CategoryNames[k] : k \in 1..8 } |->
        SelectSeq(hotspots, LAMBDA h : CategoryOf(h) = c)]

\* The percentage of the first function of a list.
FirstChildren(funcs) == funcs[1].children_percent

\* max(f['children_percent'] for f in funcs), line 217.
MaxChildren(funcs) ==
    LET ps == { funcs[i].children_percent : i \in 1..Len(funcs) }
    IN  CHOOSE p \in ps : \A q \in ps : q <= p

\* max(funcs, key=...)['symbol'], line 223: the first function of the
\* largest percentage.
TopFunction(funcs) ==
    LET tops == { i \in 1..Len(funcs) :
                     funcs[i].children_percent = MaxChildren(funcs) }
    IN  funcs[CHOOSE i \in tops : \A j \in tops : i <= j].symbol

\* category_stats, lines 212-224: an entry for each category with a
\* function.  round(total_cpu, 2) and round(max_cpu, 2) give back the sum
\* and the maximum of percentages of two decimals; the average is rounded.
CategoryStats(categories) ==
    [c \in { d \in DOMAIN categories : categories[d] # <<>> } |->
        LET funcs == categories[c]
            total_cpu == SumOf(funcs, "children_percent", 1)
        IN  [function_count |-> Len(funcs),
             total_cpu_percent |-> total_cpu,
             average_cpu_percent |-> Round2(total_cpu, 100 * Len(funcs)),
             max_cpu_percent |-> MaxChildren(funcs),
             top_function |-> TopFunction(funcs)]]

\* category_stats.get(category, {}).get('total_cpu_percent', 0)
TotalCpuOf(category_stats, category) ==
    IF category \in DOMAIN category_stats
    THEN category_stats[category].total_cpu_percent ELSE 0

\* An insight string: the category it is about, what it says of it, and the
\* percentage it quotes.
Insight(about, level, percent) ==
    [about |-> about, level |-> level, percent |-> percent]

\* The insights with every cutoff inclusive.
GenerateInsightsInclusive(category_stats) ==
    LET network_cpu == TotalCpuOf(category_stats, "Network I/O")
        syscall_cpu == TotalCpuOf(category_stats, "System Calls")
        webrtc_cpu == TotalCpuOf(category_stats, "WebRTC Core")
        video_cpu == TotalCpuOf(category_stats, "Video Processing")
    IN  (IF network_cpu >= 1500
         THEN <<Insight("Network I/O", "high", network_cpu)>> ELSE <<>>)
        \o (IF syscall_cpu >= 2000
            THEN <<Insight("System Calls", "high", syscall_cpu)>> ELSE <<>>)
        \o (IF webrtc_cpu <= 1000
            THEN <<Insight("WebRTC Core", "low", webrtc_cpu)>>
            ELSE IF webrtc_cpu >= 3000
                 THEN <<Insight("WebRTC Core", "high", webrtc_cpu)>> ELSE <<>>)
        \o (IF video_cpu >= 2500
            THEN <<Insight("Video Processing", "high", video_cpu)>> ELSE <<>>)

\* _generate_insights, lines 252-278.
GenerateInsights(category_stats) ==
    LET network_cpu == TotalCpuOf(category_stats, "Network I/O")
        syscall_cpu == TotalCpuOf(category_stats, "System Calls")
        webrtc_cpu == TotalCpuOf(category_stats, "WebRTC Core")
        video_cpu == TotalCpuOf(category_stats, "Video Processing")
    IN  (IF network_cpu > 1500
         THEN <<Insight("Network I/O", "high", network_cpu)>> ELSE <<>>)
        \o (IF syscall_cpu > 2000
            THEN <<Insight("System Calls", "high", syscall_cpu)>> ELSE <<>>)
        \o (IF webrtc_cpu < 1000
            THEN <<Insight("WebRTC Core", "low", webrtc_cpu)>>
            ELSE IF webrtc_cpu > 3000
                 THEN <<Insight("WebRTC Core", "high", webrtc_cpu)>> ELSE <<>>)
        \o (IF video_cpu > 2500
            THEN <<Insight("Video Processing", "high", video_cpu)>> ELSE <<>>)

\* The report dict of lines 227-236.
CpuReport(hotspots) ==
    LET category_stats == CategoryStats(CategorizeFunctions(hotspots))
    IN  [analysis_summary |->
            [total_hotspots |-> Len(hotspots),
             top_cpu_consumer |->
                IF hotspots # <<>> THEN hotspots[1].symbol ELSE "N/A",
             top_cpu_percent |->
                IF hotspots # <<>> THEN hotspots[1].children_percent ELSE 0],
         category_breakdown |-> category_stats,
         performance_insights |-> GenerateInsights(category_stats)]

\* perf writes one more line of the analysis file, before the analyzer runs.
WriteCpuReport(lines, max) ==
    /\ cpu.pc = "new"
    /\ Len(cpu.report_file) < max
    /\ \E line \in lines :
          cpu' = [cpu EXCEPT !.report_file = Append(@, line)]
    /\ UNCHANGED << log_file, file_state, pc, pos, last_timestamp, data, error,
                    returned, timeline, constraint, output, flame >>

\* Lines 329-333 of main: the file is parsed, and main returns when it
\* holds no hotspot.
ParseCpuAnalysisReport ==
    /\ cpu.pc = "new"
    /\ \E hotspots \in {ParseCpuReport(cpu.report_file)} :
          cpu' = [cpu EXCEPT
                     !.pc = IF hotspots = <<>> THEN "empty" ELSE "parsed",
                     !.hotspots = hotspots]
    /\ UNCHANGED << log_file, file_state, pc, pos, last_timestamp, data, error,
                    returned, timeline, constraint, output, flame >>

\* analyzer.generate_summary_report(analysis_data, output_dir), line 344,
\* for an analysis file that lies in data_dir.
CpuGenerateSummaryReport ==
    /\ cpu.pc = "parsed"
    /\ cpu' = [cpu EXCEPT !.pc = "reported",
                          !.categories = Some(CategorizeFunctions(cpu.hotspots)),
                          !.report = Some(CpuReport(cpu.hotspots))]
    /\ UNCHANGED << log_file, file_state, pc, pos, last_timestamp, data, error,
                    returned, timeline, constraint, output, flame >>

\* Percentages on both sides of every cutoff of _generate_insights, as sums
\* of up to three rows.
ChildrenTexts == {"5.00", "10.00", "16.00"}

\* An analysis file for the report: the header, and rows of the four
\* categories the insights look at.
CpuLines ==
    {HeaderLine}
        \cup { RowLine(p, "libc.so.6", <<s>>) :
                  p \in ChildrenTexts,
                  s \in {"udp_recvmsg", "entry_SYSCALL_64", "VideoFrame::decode"} }
        \cup { RowLine(p, "libwebrtc.so", <<"main">>) : p \in ChildrenTexts }

\* An analysis file for the categories: the header, a comment, text that is
\* no row, a blank line, and a row for every branch of the chain, among
\* them rows two branches match and rows with perf's "[.]" marker ahead of
\* the symbol.
CategoryLines ==
    { HeaderLine, [kind |-> "comment"], [kind |-> "text"], [kind |-> "blank"] }
        \cup { RowLine("5.00", "[kernel.kallsyms]", <<s>>) :
                  s \in {"sys_sendmsg", "entry_SYSCALL_64"} }
        \cup { RowLine("5.00", "libc.so.6", <<s>>) :
                  s \in {"udp_recvmsg", "VideoFrame::decode", "opus_encode",
                         "pcm_mix", "memcpy", "pthread_mutex_lock", "main"} }
        \cup { RowLine("10.00", "libwebrtc.so", <<s>>) :
                  s \in {"main", "VideoFrame::decode"} }
        \cup { RowLine("10.00", "peerconnection_client",
                       <<"[.]", "VideoFrame::decode">>),
               RowLine("10.00", "[kernel.kallsyms]", <<"[k]", "sys_sendmsg">>) }

CpuActions == ParseCpuAnalysisReport \/ CpuGenerateSummaryReport

\* main(), lines 308-360, over the analysis files of the report.
NextCpu ==
    \/ WriteCpuReport(CpuLines, MaxCpuLines)
    \/ CpuActions

SpecCpu == Init /\ [][NextCpu]_vars

\* main() over the analysis files of the categories.
NextCategories ==
    \/ WriteCpuReport(CategoryLines, MaxCategoryLines)
    \/ CpuActions

SpecCategories == Init /\ [][NextCategories]_vars

(***************************************************************************)
(* Claims                                                                  *)
(***************************************************************************)
\* The timestamp token of a line, read off the text: the leftmost
\* "Time: N ms" or "at N ms" of the line.
HasToken(line) == \E i \in 1..Len(line) : line[i].kind \in TokenKinds

LineToken(line) ==
    LET i == CHOOSE i \in 1..Len(line) :
                /\ line[i].kind \in TokenKinds
                /\ \A j \in 1..(i - 1) : line[j].kind \notin TokenKinds
    IN  line[i].time[1]

RECURSIVE LatestToken(_, _)

\* The token of the latest of the lines 1..k of `file` that has one.
LatestToken(file, k) ==
    IF k = 0 THEN None
    ELSE IF HasToken(file[k]) THEN Some(LineToken(file[k]))
    ELSE LatestToken(file, k - 1)

LegacyKinds == {"probe_result_old", "probe_success_old"}

\* A legacy-format probe line: a legacy probe grammar and, beside it, only
\* free timestamp tokens and other text.
LegacyLine(line) ==
    /\ \E i \in 1..Len(line) : line[i].kind \in LegacyKinds
    /\ \A i \in 1..Len(line) :
          line[i].kind \in LegacyKinds \cup {"time_token", "at_token", "text"}

\* This step reads line number pos.
ReadsLine == pc = "parsing" /\ pos <= Len(log_file) /\ pos' = pos + 1

\* This step appends a legacy probe record.
LegacyAppended ==
    /\ Len(data'.probe) = Len(data.probe) + 1
    /\ data'.probe[Len(data'.probe)].source \in {"result_old", "success_old"}

\* C1: a legacy probe record that is emitted carries the timestamp token of
\* the latest line, up to and including its own, that has one.
C1_LegacyProbeTakesLatestTimestamp ==
    [][ (ReadsLine /\ LegacyAppended) =>
            Some(data'.probe[Len(data'.probe)].timestamp)
                = LatestToken(log_file, pos) ]_vars

\* Two lines with different tokens, then a legacy probe line that got the
\* second one.
C1_Witness ==
    /\ pc = "parsing" /\ pos = 4
    /\ HasToken(log_file[1]) /\ HasToken(log_file[2])
    /\ LineToken(log_file[1]) # LineToken(log_file[2])
    /\ log_file[3] = <<Seg("probe_result_old", None, <<3, 5000>>)>>
    /\ Len(data.probe) = 1
    /\ data.probe[1].source = "result_old"
    /\ data.probe[1].timestamp = LineToken(log_file[2])

\* C2: a legacy probe line yields a probe record if and only if some line up
\* to and including it carried a timestamp token, whatever its value.
C2_LegacyDroppedIffNoTimestamp ==
    [][ (ReadsLine /\ LegacyLine(log_file[pos])) =>
            (LegacyAppended <=> LatestToken(log_file, pos) # None) ]_vars

\* Grammars of an event with an inline timestamp.
InlineTimeEvents ==
    { "trendline", "rtt_bwe", "loss_bwe", "loss_candidates", "probe_result",
      "probe_success", "decision", "constraint_apply", "delay_limit",
      "receiver_limit", "pushback" }

\* A line that is one event with an inline timestamp and nothing else.
InlineTimeLine(line) == Len(line) = 1 /\ line[1].kind \in InlineTimeEvents

\* C3: after a line classified as an event with inline timestamp N (and no
\* other token) the last-known timestamp is N, and a legacy probe line
\* directly after it is emitted with timestamp N.
C3_EveryEventUpdatesTimestamp ==
    pc = "parsing" =>
        /\ (pos > 1 /\ InlineTimeLine(log_file[pos - 1])) =>
               last_timestamp = log_file[pos - 1][1].time
        /\ (pos > 2 /\ InlineTimeLine(log_file[pos - 2])
                /\ Len(log_file[pos - 1]) = 1
                /\ log_file[pos - 1][1].kind \in LegacyKinds) =>
               /\ data.probe # <<>>
               /\ data.probe[Len(data.probe)].source
                      \in {"result_old", "success_old"}
               /\ Some(data.probe[Len(data.probe)].timestamp)
                      = log_file[pos - 2][1].time

\* C4: after line k the last-known timestamp is the token of the latest line
\* <= k that has one, classified or not, and None if there is none.
C4_ResolverFollowsEncounterOrder ==
    pc \in {"parsing", "returned"} =>
        last_timestamp = LatestToken(log_file, pos - 1)

\* The timestamp went back: token 2, then token 1 on an unclassified line.
C4_Witness ==
    /\ pc = "parsing" /\ pos = 3
    /\ log_file[1][1].kind = "trendline" /\ log_file[1][1].time = Some(2)
    /\ log_file[2] = <<Seg("at_token", Some(1), <<>>)>>
    /\ last_timestamp = Some(1)

\* Records in all ten lists together.
TotalRecords(d) ==
    Len(d.trendline) + Len(d.rtt) + Len(d.loss) + Len(d.probe)
        + Len(d.decision) + Len(d.constraint_apply) + Len(d.delay_limit)
        + Len(d.receiver_limit) + Len(d.config_limit) + Len(d.pushback)

\* C5: one line appends at most one record over all ten series.
C5_AtMostOneRecordPerLine ==
    [][ ReadsLine => TotalRecords(data') <= TotalRecords(data) + 1 ]_vars

\* A line with the text of two events has been read and left one record.
C5_Witness ==
    /\ pc = "parsing" /\ pos = 2
    /\ Len(log_file[1]) = 2
    /\ log_file[1][1].kind = "pushback"
    /\ log_file[1][2].kind = "rtt_bwe"
    /\ TotalRecords(data) = 1
    /\ Len(data.rtt) = 1

\* The order of the patterns as the claim lists it.
ClaimedOrder ==
    << "trendline", "rtt_bwe", "loss_bwe", "loss_candidates", "probe_result",
       "probe_success", "probe_result_old", "probe_success_old", "decision",
       "constraint_apply", "delay_limit", "receiver_limit", "pushback" >>

Matches(p, line) == \E i \in 1..Len(line) : line[i].kind = p

\* Pattern p matches the line and, for a fallback pattern, the timestamp
\* `ts` lets it emit.
WouldEmit(p, line, ts) ==
    Matches(p, line) /\ (p \in LegacyKinds => (ts # None /\ ts[1] # 0))

\* This step appended one record, to series s, and nothing else.
GrewOnly(s) ==
    /\ Len(data'[s]) = Len(data[s]) + 1
    /\ \A o \in SeriesNames \ {s} : data'[o] = data[o]

\* This step appended the record of pattern p and nothing else.
ProducedBy(p) ==
    LET s == SeriesOf(p)
        r == data'[s][Len(data'[s])]
    IN  /\ GrewOnly(s)
        /\ p = "probe_result" => r.source = "result"
        /\ p = "probe_success" => r.source = "success"
        /\ p = "probe_result_old" => r.source = "result_old"
        /\ p = "probe_success_old" => r.source = "success_old"
        /\ p = "loss_bwe" => r.state >= 0
        /\ p = "loss_candidates" => r.state = -1

\* The timestamp of the first fragment of grammar p in the line.
InlineTime(p, line) ==
    LET i == CHOOSE i \in 1..Len(line) :
                line[i].kind = p /\ \A j \in 1..(i - 1) : line[j].kind # p
    IN  line[i].time[1]

EarlierThanProbe == {"trendline", "rtt_bwe", "loss_bwe", "loss_candidates"}

\* C6: the first pattern of the fixed order that emits wins; a line matching
\* the timestamped and the legacy grammar of a probe yields one probe record,
\* of the timestamped grammar and with the inline timestamp.
C6_FirstPatternWins ==
    [][ ReadsLine =>
          LET line == log_file[pos]
              ts == last_timestamp'
          IN  /\ \A i \in 1..Len(ClaimedOrder) :
                    ( /\ WouldEmit(ClaimedOrder[i], line, ts)
                      /\ \A j \in 1..(i - 1) :
                            ~WouldEmit(ClaimedOrder[j], line, ts) )
                    => ProducedBy(ClaimedOrder[i])
              /\ (\A i \in 1..Len(ClaimedOrder) :
                     ~WouldEmit(ClaimedOrder[i], line, ts)) => data' = data
              /\ ( /\ Matches("probe_result", line)
                   /\ Matches("probe_result_old", line)
                   /\ \A e \in EarlierThanProbe : ~Matches(e, line) )
                 => /\ ProducedBy("probe_result")
                    /\ data'.probe[Len(data'.probe)].timestamp
                           = InlineTime("probe_result", line)
              /\ ( /\ Matches("probe_success", line)
                   /\ Matches("probe_success_old", line)
                   /\ \A e \in EarlierThanProbe \cup {"probe_result"} :
                         ~Matches(e, line) )
                 => /\ ProducedBy("probe_success")
                    /\ data'.probe[Len(data'.probe)].timestamp
                           = InlineTime("probe_success", line)
              /\ (Matches("probe_result", line) \/ Matches("probe_success", line))
                 => ~LegacyAppended ]_vars

\* A line with the legacy text first and the timestamped text behind it was
\* read: one record, of the timestamped grammar.
C6_Witness ==
    /\ pc = "parsing" /\ pos = 2
    /\ Len(log_file[1]) = 2
    /\ log_file[1][1].kind = "probe_result_old"
    /\ log_file[1][2].kind = "probe_result"
    /\ log_file[1][2].time = Some(2)
    /\ TotalRecords(data) = 1
    /\ data.probe[1].source = "result"
    /\ data.probe[1].timestamp = 2

KnownReasons ==
    {"Hold", "LossEstimate", "ProbeResult", "RttBackoff", "DelayLimit"}

\* The rank the claim gives a reason token.
ClaimedRank(r, rank) ==
    /\ r = "Hold" => rank = 0
    /\ r = "LossEstimate" => rank = 1
    /\ r = "ProbeResult" => rank = 2
    /\ r = "RttBackoff" => rank = 3
    /\ r = "DelayLimit" => rank = 4
    /\ r \notin KnownReasons => rank = 0

\* C7: the ranks are Hold 0, LossEstimate 1, ProbeResult 2, RttBackoff 3,
\* DelayLimit 4, and every other reason token gets rank 0.
C7_RankTableIsTotal ==
    timeline.drawn =>
        LET dec == returned[Len(returned)].decision
        IN  /\ Len(timeline.points) = Len(dec)
            /\ \A i \in 1..Len(dec) :
                  ClaimedRank(dec[i].decision_reason,
                              timeline.points[i].decision_numeric)

\* A decision with a reason token outside the table was ranked 0.
C7_Witness ==
    /\ timeline.drawn
    /\ \E i \in 1..Len(timeline.points) :
          /\ returned[Len(returned)].decision[i].decision_reason = "Probing"
          /\ timeline.points[i].decision_numeric = 0

\* The decision snapshot lines of a log, in file order.
SnapshotLines(file) ==
    SelectSeq(file, LAMBDA line : Len(line) = 1 /\ line[1].kind = "decision")

\* C8: parse_log_file then plot_gcc_decision_metrics give one (timestamp,
\* rank) point per decision snapshot line, in arrival order, whatever the
\* other series hold.
C8_TimelineHasEveryDecision ==
    timeline.called =>
        LET snaps == SnapshotLines(log_file)
        IN  /\ Len(timeline.points) = Len(snaps)
            /\ \A i \in 1..Len(snaps) :
                  /\ Some(timeline.points[i].timestamp) = snaps[i][1].time
                  /\ ClaimedRank(snaps[i][1].vals[1],
                                 timeline.points[i].decision_numeric)

NonDecreasing(seq) ==
    \A i \in 1..Len(seq) : \A j \in i..Len(seq) : seq[i] <= seq[j]

TimesOf(list) == [i \in 1..Len(list) |-> list[i].timestamp]

ProbeTimed == {"probe_result", "probe_success"}

LossTimed == {"loss_bwe", "loss_candidates"}

\* The inline timestamps of the lines 1..k that hold a fragment of `kinds`.
RECURSIVE InputTimes(_, _, _)

InputTimes(kinds, file, k) ==
    IF k = 0 THEN <<>>
    ELSE LET line == file[k]
             hits == { i \in 1..Len(line) : line[i].kind \in kinds }
         IN  IF hits = {} THEN InputTimes(kinds, file, k - 1)
             ELSE Append(InputTimes(kinds, file, k - 1),
                         line[CHOOSE i \in hits : \A j \in hits : i <= j].time[1])

\* C9 as stated: a series is non-decreasing in time whenever the input lines
\* of its subsystem are, the probe series with its legacy records included.
C9_OrderPreserved ==
    pc \in {"parsing", "returned"} =>
        /\ NonDecreasing(InputTimes(LossTimed, log_file, pos - 1))
               => NonDecreasing(TimesOf(data.loss))
        /\ NonDecreasing(InputTimes(ProbeTimed, log_file, pos - 1))
               => NonDecreasing(TimesOf(data.probe))

\* C9 amended: it holds of the records that carry their own inline
\* timestamp, the whole loss series and the probe records of timestamped
\* lines; a legacy probe record carries the last-known timestamp of any
\* subsystem and is not covered.
C9_OrderPreservedInlineTimestamps ==
    pc \in {"parsing", "returned"} =>
        /\ NonDecreasing(InputTimes(LossTimed, log_file, pos - 1))
               => NonDecreasing(TimesOf(data.loss))
        /\ NonDecreasing(InputTimes(ProbeTimed, log_file, pos - 1))
               => NonDecreasing(TimesOf(
                      SelectSeq(data.probe,
                          LAMBDA r : r.source \in {"result", "success"})))

\* An ordered probe log with a legacy line between two timestamped ones.
C9_Witness ==
    /\ pc = "returned"
    /\ Len(log_file) = 3
    /\ log_file[1][1].kind = "probe_result"
    /\ log_file[2][1].kind = "probe_result_old"
    /\ log_file[3][1].kind = "probe_success"
    /\ TimesOf(data.probe) = <<1, 1, 2>>

\* C10: every run of parse_log_file over the same lines returns the same
\* series, and each run starts with the last-known timestamp unknown.
C10_ParseIsIdempotent ==
    /\ \A i \in 1..Len(returned) : returned[i] = returned[1]
    /\ (pc = "parsing" /\ pos = 1) => last_timestamp = None

\* Two runs over a log whose legacy probe line precedes its only timestamp:
\* dropped in both.
C10_Witness ==
    /\ Len(returned) = 2
    /\ Len(log_file) = 2
    /\ log_file[1][1].kind = "probe_result_old"
    /\ log_file[2][1].kind = "time_token"
    /\ last_timestamp = Some(1)
    /\ returned[1].probe = <<>>
    /\ returned[2].probe = <<>>

\* The loop body is run on the next line: it ends with its "continue" or
\* with an exception.
ProcessesLine ==
    /\ pc = "parsing"
    /\ pos <= Len(log_file)
    /\ pos' = pos + 1 \/ pc' = "failed"

\* The line starts with the LossBWE-Candidates grammar.
CandidatesLine(line) == line[1].kind = "loss_candidates"

\* The largest of a non-empty set of numbers.
Largest(nums) == CHOOSE n \in nums : \A m \in nums : m <= n

\* C11: a LossBWE-Candidates line yields exactly one record, in the loss
\* series, with state -1, with as many observations as the list holds values
\* and with the largest value times 1000 as bandwidth (0 for no value).
C11_CandidatesLineYieldsRecord ==
    [][ (ProcessesLine /\ CandidatesLine(log_file[pos])) =>
          LET line == log_file[pos]
              listed == KeptItems(ListItems(line, 1))
              bps == { NumberOf(listed[k]) : k \in 1..Len(listed) }
              r == data'.loss[Len(data'.loss)]
          IN  /\ GrewOnly("loss")
              /\ r.timestamp = line[1].time[1]
              /\ r.state = -1
              /\ r.observations = Len(listed)
              /\ r.bandwidth = IF listed = <<>> THEN 0 ELSE Largest(bps) ]_vars

\* The LossBWE-Estimate lines of a file as rows (state, bandwidth,
\* observations), read off the text.
EstimateRows(file) ==
    LET est == SelectSeq(file, LAMBDA l : l[1].kind = "loss_bwe")
    IN  [k \in 1..Len(est) |->
            [state |-> est[k][1].vals[1], bandwidth |-> est[k][1].vals[2],
             observations |-> est[k][1].vals[3]]]

\* C12: the statistics of the loss panel (average bandwidth, average
\* observations, most common state) are those of the LossBWE-Estimate records
\* alone, whatever candidate records the loss series holds beside them.
C12_StatsOverEstimatesOnly ==
    timeline.drawn =>
        LET rows == EstimateRows(log_file)
        IN  IF rows = <<>> THEN ~timeline.loss_stats.drawn
            ELSE timeline.loss_stats = StatsOf(rows)

\* The chart was drawn from a loss series of two estimates and a candidates
\* record.
C12_Witness ==
    /\ timeline.drawn
    /\ timeline.loss_stats.n = 2
    /\ \E i \in 1..Len(data.loss) : data.loss[i].state = -1

\* The lines read so far, all of the loss subsystem.
LinesRead == SubSeq(log_file, 1, pos - 1)

\* C13: in the loss series a record has state -1 iff a LossBWE-Candidates
\* line produced it, and the record of a LossBWE-Estimate line has a state
\* of 0 or more.
C13_SentinelMarksCandidates ==
    /\ Len(data.loss) = Len(LinesRead)
    /\ \A k \in 1..Len(data.loss) :
          /\ data.loss[k].state = -1 <=> LinesRead[k][1].kind = "loss_candidates"
          /\ LinesRead[k][1].kind = "loss_bwe" => data.loss[k].state >= 0

\* A returned loss series with a candidates record and an estimate of
\* state 0.
C13_Witness ==
    /\ pc = "returned"
    /\ \E i, j \in 1..Len(data.loss) :
          /\ LinesRead[i][1].kind = "loss_candidates"
          /\ LinesRead[j][1].kind = "loss_bwe"
          /\ data.loss[j].state = 0

\* C14: a Trendline line whose modified trend or whose threshold is the text
\* 'nan' yields a trendline record with 0.0 in that field, not NaN.
C14_NanFieldsBecomeZero ==
    [][ (ProcessesLine /\ log_file[pos][1].kind = "trendline") =>
          LET seg == log_file[pos][1]
              r == data'.trendline[Len(data'.trendline)]
          IN  /\ GrewOnly("trendline")
              /\ seg.vals[1] = "nan" => r.modified_trend = Float(0)
              /\ seg.vals[2] = "nan" => r.threshold = Float(0) ]_vars

\* The float a free-form numeric text is to give: its number, and 0.0 for a
\* text that is no number.
Sanitized(text) ==
    IF text \in NumericTexts THEN Float(NumberOf(text)) ELSE Float(0)

\* C15: a line of a pattern with a free-form numeric field never makes the
\* parse raise: its record is emitted, with 0.0 for a field value that is no
\* number, and the loop goes on to the next line.
C15_NumericFailureNeverAborts ==
    [][ ProcessesLine =>
          LET seg == log_file[pos][1]
              s == SeriesOf(seg.kind)
              r == data'[s][Len(data'[s])]
              listed == KeptItems(seg.vals)
          IN  /\ pc' = "parsing"
              /\ pos' = pos + 1
              /\ GrewOnly(s)
              /\ seg.kind = "trendline" =>
                    /\ r.modified_trend = Sanitized(seg.vals[1])
                    /\ r.threshold = Sanitized(seg.vals[2])
              /\ seg.kind = "loss_candidates" =>
                    r.candidates = [k \in 1..Len(listed) |-> Sanitized(listed[k])]
              /\ seg.kind = "pushback" =>
                    r.reduction_ratio = Sanitized(seg.vals[5]) ]_vars

\* The line matches no pattern of the table.
Unmatched(line) == \A p \in PatternNames : ~Matches(p, line)

\* C16: a line matching none of the event patterns is dropped without an
\* error: every series is as before, the loop goes on, and nothing but the
\* last-known timestamp may have changed.
C16_UnmatchedLineDropped ==
    [][ (ProcessesLine /\ Unmatched(log_file[pos])) =>
          /\ data' = data
          /\ pc' = "parsing"
          /\ pos' = pos + 1
          /\ UNCHANGED << log_file, file_state, error, returned, timeline,
                          constraint, output >> ]_vars

\* A record was parsed, then a line that is only a timestamp token: the
\* series are those of the first line, the timestamp is the token's.
C16_Witness ==
    /\ pc = "parsing"
    /\ pos = 3
    /\ log_file[1][1].kind = "trendline"
    /\ log_file[2][1].kind = "time_token"
    /\ log_file[2][1].time # log_file[1][1].time
    /\ last_timestamp = log_file[2][1].time
    /\ TotalRecords(data) = 1

\* `old` is `new` without some records at its end.
IsPrefix(old, new) ==
    /\ Len(old) <= Len(new)
    /\ SubSeq(new, 1, Len(old)) = old

\* C17: during the parse pass every series only grows at its end: a step
\* leaves it as it is or puts the record of the line just read behind the
\* records it held, which stay as they were; so the records of a series are
\* in the order of their lines.
C17_SeriesAppendOnly ==
    [][ pc = "parsing" =>
          \A s \in SeriesNames :
              \/ data'[s] = data[s]
              \/ /\ ProcessesLine
                 /\ Len(data'[s]) = Len(data[s]) + 1
                 /\ IsPrefix(data[s], data'[s])
                 /\ LET seg == log_file[pos][1]
                        r == data'[s][Len(data'[s])]
                    IN  /\ SeriesOf(seg.kind) = s
                        /\ seg.kind \notin LegacyKinds =>
                              r.timestamp = seg.time[1] ]_vars

\* A returned series of two records whose timestamps go down: the order is
\* that of the lines, not that of the timestamps.
C17_Witness ==
    /\ pc = "returned"
    /\ Len(data.trendline) = 2
    /\ data.trendline[1].timestamp > data.trendline[2].timestamp
    /\ data.trendline[1].timestamp = log_file[1][1].time[1]

\* C18: a ConstraintApply line yields one record whose nine fields are the
\* nine values logged on the line, in their order, also when the values break
\* final <= after_upper <= original.
C18_ConstraintValuesAsLogged ==
    [][ (ProcessesLine /\ log_file[pos][1].kind = "constraint_apply") =>
          LET seg == log_file[pos][1]
              r == data'.constraint_apply[Len(data'.constraint_apply)]
          IN  /\ GrewOnly("constraint_apply")
              /\ << r.timestamp, r.original, r.upper_limit, r.after_upper,
                    r.min_config, r.final, r.delay_limit, r.receiver_limit,
                    r.max_config >> = <<seg.time[1]>> \o seg.vals ]_vars

\* The expected ordering final <= after_upper <= original is broken.
Violates(r) ==
    r.final > r.original \/ r.final > r.after_upper \/ r.after_upper > r.original

\* A returned record with final > after_upper > original.
C18_Witness ==
    /\ pc = "returned"
    /\ \E k \in 1..Len(data.constraint_apply) :
          LET r == data.constraint_apply[k]
          IN  r.final > r.after_upper /\ r.after_upper > r.original

\* The nine logged fields of a constraint record.
LoggedFields ==
    { "timestamp", "original", "upper_limit", "after_upper", "min_config",
      "final", "delay_limit", "receiver_limit", "max_config" }

\* What the constraint chart marks on a row besides the plotted values.
ChartMarks == {"delay_fill", "effect_fill"}

\* C19: in the output of a finished run every constraint record that breaks
\* the expected ordering carries a flag: a field of the record beside the
\* logged values, or a mark of the chart that is set on exactly the records
\* that break it.
C19_ViolationsFlagged ==
    pc = "saved" =>
        LET recs == returned[Len(returned)].constraint_apply
        IN  \/ \A k \in 1..Len(recs) :
                  Violates(recs[k]) => DOMAIN recs[k] # LoggedFields
            \/ /\ constraint.drawn
               /\ \E f \in ChartMarks : \A k \in 1..Len(recs) :
                     constraint.rows[k][f] <=> Violates(recs[k])

\* C20: with the input file missing or unreadable the run fails as a whole:
\* parse_log_file raises and returns no series, no chart is drawn, no
\* directory and no chart file is written.
C20_MissingFileFailsRun ==
    (file_state # "ok" /\ pc # "idle") =>
        /\ pc = "failed"
        /\ error \in {"FileNotFoundError", "PermissionError"}
        /\ returned = <<>>
        /\ ~timeline.called
        /\ ~constraint.called
        /\ output = NoOutput

\* main has run on a missing file.
C20_Witness ==
    /\ file_state = "missing"
    /\ pc = "failed"
    /\ error = "FileNotFoundError"

\* The file as the lenient decoder hands it on: the undecodable bytes gone.
DecodedFile == [i \in 1..Len(log_file) |-> Decoded(log_file[i])]

\* C21: a line with undecodable bytes fails neither parser: parse_log_file
\* does not end in an exception on a log with such a line, and the timeline
\* of parse_webrtc_logs holds the events of every line, read without those
\* bytes.
C21_UndecodableBytesTolerated ==
    /\ (\E i \in 1..Len(log_file) : Undecodable(log_file[i])) => pc # "failed"
    /\ flame.parses = 1 => flame.timeline_data = ParseFrom(DecodedFile, 1, <<>>)

RECURSIVE SumOver(_, _)

\* The sum of f over the set S.
SumOver(S, f) ==
    IF S = {} THEN 0
    ELSE LET x == CHOOSE y \in S : TRUE IN f[x] + SumOver(S \ {x}, f)

\* The durations of the events of category c in the timeline.
DurationsIn(c) ==
    { flame.timeline_data[i].duration :
        i \in { j \in 1..Len(flame.timeline_data) :
                  flame.timeline_data[j].function[1] = c } }

\* The sums of the categories are those of the summary, and the maximum of a
\* category is the largest duration of its events.
ReportConserves(r) ==
    LET cats == DOMAIN r.categories
    IN  /\ SumOver(cats, [c \in cats |-> r.categories[c].event_count])
              = r.total_events
        /\ SumOver(cats, [c \in cats |-> r.categories[c].total_time_ms])
              = r.total_time_ms
        /\ \A c \in cats :
              /\ r.categories[c].max_time_ms \in DurationsIn(c)
              /\ \A d \in DurationsIn(c) : d <= r.categories[c].max_time_ms

\* C24: the report conserves the events: the event counts of the categories
\* sum to total_events, their total times to the total time of the summary,
\* the average of a category is its total time divided by its event count,
\* and its maximum is the largest duration of its events.  (Averages are in
\* hundredths of a millisecond.)
C24_ReportConservesEvents ==
    flame.report # None =>
        LET r == flame.report[1]
        IN  /\ ReportConserves(r)
            /\ \A c \in DOMAIN r.categories :
                  r.categories[c].average_time_ms * r.categories[c].event_count
                      = 100 * r.categories[c].total_time_ms

\* C24, amended: as above, the average being the quotient rounded to two
\* decimals: the hundredth nearest to total time / event count.
C24_ReportConservesEventsRounded ==
    flame.report # None =>
        LET r == flame.report[1]
        IN  /\ ReportConserves(r)
            /\ \A c \in DOMAIN r.categories :
                  LET off == r.categories[c].average_time_ms
                                 * r.categories[c].event_count
                             - 100 * r.categories[c].total_time_ms
                  IN  /\ 2 * off <= r.categories[c].event_count
                      /\ 2 * (0 - off) <= r.categories[c].event_count

\* A report with a category of three events lasting 11 ms in all: its
\* average is written as 3.67.
C24_Witness ==
    /\ flame.report # None
    /\ \E c \in DOMAIN flame.report[1].categories :
          /\ flame.report[1].categories[c].event_count = 3
          /\ flame.report[1].categories[c].total_time_ms = 11
          /\ flame.report[1].categories[c].average_time_ms = 367

\* How often event e occurs in a timeline.
Occurrences(events, e) == Cardinality({ i \in 1..Len(events) : events[i] = e })

\* The functions of a timeline.
FunctionNames(events) == { events[i].function : i \in 1..Len(events) }

\* The text of a folded stack line: the parts of the stack joined by ";".
\* A function name of two or more parts is its own stack.
StackOf(function) ==
    IF Len(function) >= 2 THEN function ELSE <<"WebRTC">> \o function

\* C29: generate_flame_graph_data returns one folded-stack line for each
\* function name of the timeline, valued with the sum of the durations of
\* the events of that function, so the values sum to the sum of all
\* durations; the call leaves the timeline sorted by non-decreasing
\* timestamp, with the events it held before.
C29_StacksConserveDurations ==
    [][(flame.pc = "parsed" /\ flame'.pc = "stacked") =>
          LET before == flame.timeline_data
              after == flame'.timeline_data
              stacks == flame'.stack_data[1]
          IN  /\ Len(stacks) = Cardinality(FunctionNames(before))
              /\ \A f \in FunctionNames(before) :
                    \E k \in 1..Len(stacks) :
                       /\ stacks[k].stack = StackOf(f)
                       /\ stacks[k].value =
                             SumOver({ i \in 1..Len(before) :
                                          before[i].function = f },
                                     [i \in 1..Len(before) |->
                                          before[i].duration])
              /\ SumOver(1..Len(stacks), [k \in 1..Len(stacks) |->
                                              stacks[k].value])
                    = SumOver(1..Len(before), [i \in 1..Len(before) |->
                                                  before[i].duration])
              /\ \A i, j \in 1..Len(after) :
                    i <= j => after[i].timestamp <= after[j].timestamp
              /\ Len(after) = Len(before)
              /\ \A i \in 1..Len(before) :
                    Occurrences(after, before[i]) = Occurrences(before, before[i])
       ]_vars

\* Stacks made of a timeline that was parsed out of timestamp order and
\* holds a function twice.
C29_Witness ==
    /\ flame.pc = "stacked"
    /\ Len(flame.timeline_data) = 3
    /\ Len(flame.stack_data[1]) = 2
    /\ log_file[1][1].kind = "rtp"
    /\ log_file[2][1].kind = "decision"
    /\ flame.timeline_data[3].timestamp = 100

\* C30: a second call of parse_webrtc_logs on the same generator over the
\* same log leaves the timeline as the first call left it.
C30_ReparseKeepsTimeline ==
    [][(flame.parses = 1 /\ flame'.parses = 2 /\ log_file' = log_file) =>
          flame'.timeline_data = flame.timeline_data]_vars

\* The lines of the log that match the BWE-ConfigLimit grammar.
ConfigLimitLines == { i \in 1..Len(log_file) : Search("config_limit", log_file[i]) # 0 }

\* C25: every line of the BWE-ConfigLimit grammar yields a record of the
\* config_limit series parse_log_file returns, so the series is not empty
\* when the log holds such a line.
C25_ConfigLimitRecorded ==
    pc = "returned" =>
        /\ Len(returned[Len(returned)].config_limit) = Cardinality(ConfigLimitLines)
        /\ ConfigLimitLines # {} => returned[Len(returned)].config_limit # <<>>

\* The hotspots of category c, by their place in the parsed list.
Members(c) ==
    { i \in 1..Len(cpu.hotspots) : CategoryOf(cpu.hotspots[i]) = c }

\* The sum of children_percent over the hotspots of category c.
ChildrenTotal(c) ==
    SumOver(Members(c), [i \in 1..Len(cpu.hotspots) |->
                            cpu.hotspots[i].children_percent])

\* The entry of category c, but for its average: the count, the sum, the
\* largest percentage and a symbol that attains it; no entry for a category
\* without hotspot.
BreakdownOf(c, breakdown) ==
    IF Members(c) = {} THEN c \notin DOMAIN breakdown
    ELSE /\ c \in DOMAIN breakdown
         /\ breakdown[c].function_count = Cardinality(Members(c))
         /\ breakdown[c].total_cpu_percent = ChildrenTotal(c)
         /\ \A i \in Members(c) :
               cpu.hotspots[i].children_percent <= breakdown[c].max_cpu_percent
         /\ \E i \in Members(c) :
               /\ cpu.hotspots[i].children_percent = breakdown[c].max_cpu_percent
               /\ cpu.hotspots[i].symbol = breakdown[c].top_function

AllCategories == { CategoryNames[k] : k \in 1..Len(CategoryNames) }

HasInsight(about, level) ==
    \E k \in 1..Len(cpu.report[1].performance_insights) :
       /\ cpu.report[1].performance_insights[k].about = about
       /\ cpu.report[1].performance_insights[k].level = level

\* C23: the insights follow fixed cutoffs on the category totals (in
\* hundredths of a percent): Network I/O above 15, System Calls above 20,
\* Video Processing above 25, WebRTC Core above 30 ("high") and WebRTC Core
\* below 10 ("low"); never both WebRTC Core insights, and at most four
\* insights.
C23_InsightCutoffs ==
    cpu.report # None =>
        /\ HasInsight("Network I/O", "high") <=> ChildrenTotal("Network I/O") > 1500
        /\ HasInsight("System Calls", "high") <=> ChildrenTotal("System Calls") > 2000
        /\ HasInsight("Video Processing", "high")
              <=> ChildrenTotal("Video Processing") > 2500
        /\ HasInsight("WebRTC Core", "high") <=> ChildrenTotal("WebRTC Core") > 3000
        /\ HasInsight("WebRTC Core", "low") <=> ChildrenTotal("WebRTC Core") < 1000
        /\ ~(HasInsight("WebRTC Core", "high") /\ HasInsight("WebRTC Core", "low"))
        /\ Len(cpu.report[1].performance_insights) <= 4
        /\ \A k \in 1..Len(cpu.report[1].performance_insights) :
              /\ cpu.report[1].performance_insights[k].about
                    \in {"Network I/O", "System Calls", "Video Processing",
                         "WebRTC Core"}
              /\ cpu.report[1].performance_insights[k].level \in {"high", "low"}

\* WebRTC Core at 31 percent: the "high" insight and no other.
C23_Witness ==
    /\ cpu.report # None
    /\ ChildrenTotal("WebRTC Core") = 3100
    /\ HasInsight("WebRTC Core", "high")
    /\ Len(cpu.report[1].performance_insights) = 1

\* The order of the rules, as claimed.
ClaimedRules ==
    << "Network I/O", "System Calls", "WebRTC Core", "Video Processing",
       "Audio Processing", "Memory Management", "Threading" >>

\* Category c is the first rule, in the claimed order, that hotspot h
\* matches, or "Other" when it matches none.
FirstRuleOf(h, c) ==
    \/ /\ c = "Other"
       /\ \A k \in 1..Len(ClaimedRules) : ~RuleMatches(ClaimedRules[k], h)
    \/ \E k \in 1..Len(ClaimedRules) :
          /\ c = ClaimedRules[k]
          /\ RuleMatches(c, h)
          /\ \A j \in 1..(k - 1) : ~RuleMatches(ClaimedRules[j], h)

\* C26: categorize_functions partitions the hotspots over the eight
\* categories: each hotspot is in the list of the first rule it matches, in
\* the order Network I/O, System Calls, WebRTC Core, Video Processing, Audio
\* Processing, Memory Management, Threading, else Other, and in no other
\* list, so the sizes of the lists sum to the number of hotspots.
C26_CategoriesPartition ==
    cpu.categories # None =>
        LET cats == cpu.categories[1]
        IN  /\ DOMAIN cats = AllCategories
            /\ Cardinality(DOMAIN cats) = 8
            /\ SumOver(DOMAIN cats, [c \in DOMAIN cats |-> Len(cats[c])])
                  = Len(cpu.hotspots)
            /\ \A i \in 1..Len(cpu.hotspots) :
                  SumOver(DOMAIN cats,
                          [c \in DOMAIN cats |->
                              Occurrences(cats[c], cpu.hotspots[i])])
                      = Occurrences(cpu.hotspots, cpu.hotspots[i])
            /\ \A c \in DOMAIN cats : \A k \in 1..Len(cats[c]) :
                  FirstRuleOf(cats[c][k], c)

\* Two hotspots: one that the WebRTC Core and the video rule both match,
\* one that no rule matches.
C26_Witness ==
    /\ cpu.categories # None
    /\ Len(cpu.hotspots) = 2
    /\ Len(cpu.categories[1]["WebRTC Core"]) = 1
    /\ cpu.categories[1]["WebRTC Core"][1].symbol = "VideoFrame::decode"
    /\ Len(cpu.categories[1]["Other"]) = 1

\* C27: every insight of the report is about a category that holds a
\* hotspot, that is, one with an entry in category_stats.
C27_InsightsOnlyOfCategoriesWithData ==
    cpu.report # None =>
        \A k \in 1..Len(cpu.report[1].performance_insights) :
           /\ cpu.report[1].performance_insights[k].about
                 \in DOMAIN cpu.report[1].category_breakdown
           /\ Members(cpu.report[1].performance_insights[k].about) # {}

\* C28: top_cpu_consumer and top_cpu_percent of analysis_summary are the
\* symbol and the children_percent of a hotspot no other hotspot exceeds,
\* in whatever order the file lists the hotspots.
C28_TopConsumerIsLargest ==
    cpu.report # None =>
        \E i \in 1..Len(cpu.hotspots) :
           /\ cpu.report[1].analysis_summary.top_cpu_consumer
                 = cpu.hotspots[i].symbol
           /\ cpu.report[1].analysis_summary.top_cpu_percent
                 = cpu.hotspots[i].children_percent
           /\ \A j \in 1..Len(cpu.hotspots) :
                 cpu.hotspots[j].children_percent
                     <= cpu.hotspots[i].children_percent

====
